---- MODULE Spec2Model ----
(***************************************************************************)
(* Model of the resilient document-optimization pipeline of ResWave:       *)
(*   - withRetry                    (backend/src/utils/timeouts.ts)        *)
(*   - CircuitBreaker               (utils/service-recovery.ts)            *)
(*   - processWithConcurrencyLimit  (backend/src/utils/timeouts.ts)        *)
(*   - POST /api/optimize           (server.ts and routes/files.ts)        *)
(*   - GET /api/v1/health           (server.ts, HealthMonitor)             *)
(* timeouts.ts carries two generations of withRetry and of                 *)
(* processWithConcurrencyLimit; both are modelled and told apart by        *)
(* retryImpl and schedImpl.                                                *)
(***************************************************************************)
EXTENDS Integers, Sequences, FiniteSets, TLC

VARIABLES
    \* ---- withRetry ----
    retryImpl,      \* "ollama": timeouts.ts 46-85, "chunk": timeouts.ts 180-201
    maxAttempts,    \* parameter maxAttempts
    attempt,        \* loop variable attempt (1-based)
    lastError,      \* local lastError ("none" before the first failure)
    rpc,            \* "call" | "backoff" | "returned" | "threw"
    calls,          \* number of times operation() has been invoked
    thrown,         \* the error withRetry rejected with
    delay,          \* the delay of the backoff timer last armed (ms)
    outstanding,    \* requests sent to the inference endpoint and not yet answered
    retryCount,     \* retryCount of the request handler (processChunk's catch)
    errorsSeen,     \* the kinds of error the attempts have failed with so far
    \* ---- CircuitBreaker ----
    state,          \* 'closed' | 'open' | 'half-open'
    failures,       \* this.failures
    successes,      \* this.successes
    lastFailure,    \* this.lastFailure (ms)
    now,            \* Date.now() (ms)
    pending,        \* wrapped operations in flight, counted by state at admission
    execBit,        \* flips at every call of execute()
    lastAdmit,      \* "none" | "admitted" | "circuit_open": latest execute() entry
    failRun,        \* failed calls in a row since closed with zero counters; -1: none
    hoSuccesses,    \* successful calls in a row since half-open was entered; -1: none
    lastSettle,     \* the latest settled call: its outcome and the state it met
    failStreak,     \* how many of the most recent call outcomes were all failures
    settledAdmit,   \* the state in which the latest settled call was admitted
    \* ---- processWithConcurrencyLimit and POST /api/optimize ----
    schedImpl,      \* "tasks": timeouts.ts 93-157, "batch": timeouts.ts 220-234
    nItems,         \* items.length
    limit,          \* concurrency limit
    inv,            \* inv[t]: statuses of the processor invocations of item t
    completed,      \* task.completed per item
    result,         \* task.result per item (Undefined or the item's output)
    activeTasks,    \* activeTasks in insertion order
    results,        \* results array
    nextItem,       \* index of the item whose loop iteration runs next
    awaited,        \* the invocations the pending race/all still waits for
    spc,            \* "idle" | "race" | "all" | "returned" | "rejected"
    jobError,       \* the failure the job rejected with, and whether it was the
                    \* first terminal failure among the job's invocations
    anyFailure,     \* an invocation failed terminally while the job was pending
    startedAfterFailure, \* an invocation was started after a terminal failure
    hpc,            \* request handler position
    artifact,       \* TRUE while the uploaded file exists in the store
    deleteCalls,    \* number of storageEngine.deleteFile calls of the request
    response,       \* "none" | "ok" | "error": the response sent so far
    failPoint,      \* "none" | "extraction" | "fatal" | "exhausted"
    crashed,        \* the process died of an unhandled rejection
    refused,        \* the item for which the endpoint refuses every connection; 0: none
    totalRequests,  \* metrics.totalRequests
    successfulRequests, \* metrics.successfulRequests
    failedRequests, \* metrics.failedRequests
    \* ---- GET /api/v1/health ----
    health,         \* one record per health request: its breaker, its outcome
    \* ---- calculateTimeout ----
    ctImpl,         \* "A": calculateTimeout(contentLength, isFirstRequest); "B": calculateTimeout(contentSize)
    isFirstRequest, \* the cold-start flag of the calls (version A only)
    ctCalls,        \* number of calls made
    contentLength,  \* argument of the latest call
    ctOut,          \* its result, in 1/TimeScale ms
    prevLength,     \* argument of the call before it
    prevOut,        \* its result
    \* ---- splitContent ----
    text,           \* the extracted text, a sequence of characters
    chunks,         \* the result of splitContent(text)
    splitDone,      \* splitContent(text) has returned
    contentChunks,  \* the chunks the route submits, one inference call each
    submitDone,     \* the route has formed contentChunks
    \* ---- upload ingestion ----
    uploads,        \* one record per upload request: the state of its ingestion
    \* ---- text extraction ----
    exRoute,        \* "server": extractTextContent and errorHandler; "files": the route of routes/files.ts
    isDocx,         \* filepath ends with .docx
    statOk,         \* fs.stat(filepath) resolves
    mammothLoaded,  \* the mammoth module is loaded
    decode,         \* what mammoth.extractRawText does
    readText,       \* what fs.readFile does
    exPc,           \* "start" | "extracted" | "responded"
    exResult,       \* the outcome of the extraction
    exResponse,     \* the response of the request after a failed extraction
    \* ---- GET /health ----
    hqPc,           \* "probing" | "recovering" | "reprobing" | "responded"
    serviceStatus,  \* serviceStatus.ollama: running, healthy, status
    storageStatus,  \* the result of storage.checkHealth()
    firstHealthy,   \* the first probe of the inference endpoint succeeded
    recovered,      \* the result of ensureOllamaRunning()
    hqStatus,       \* the status reported, "none" before the response
    jobsFailed      \* optimize jobs that have failed so far (the metrics)

retryVars == <<retryImpl, maxAttempts, attempt, lastError, rpc, calls, thrown, delay,
               outstanding, retryCount, errorsSeen>>
breakerVars == <<state, failures, successes, lastFailure, now, pending, execBit,
                 lastAdmit, failRun, hoSuccesses, lastSettle, failStreak, settledAdmit>>
schedVars == <<schedImpl, nItems, limit, inv, completed, result, activeTasks, results,
               nextItem, awaited, spc, jobError, anyFailure, startedAfterFailure>>
reqVars == <<hpc, artifact, deleteCalls, response, failPoint, crashed, refused,
             totalRequests, successfulRequests, failedRequests>>
healthVars == <<health>>
timeoutVars == <<ctImpl, isFirstRequest, ctCalls, contentLength, ctOut, prevLength, prevOut>>
splitVars == <<text, chunks, splitDone, contentChunks, submitDone>>
uploadVars == <<uploads>>
extractVars == <<exRoute, isDocx, statOk, mammothLoaded, decode, readText, exPc, exResult, exResponse>>
queryVars == <<hqPc, serviceStatus, storageStatus, firstHealthy, recovered, hqStatus, jobsFailed>>
vars == <<retryVars, breakerVars, schedVars, reqVars, healthVars, timeoutVars, splitVars, uploadVars, extractVars, queryVars>>
notRetry == <<breakerVars, schedVars, reqVars, healthVars, timeoutVars, splitVars, uploadVars, extractVars, queryVars>>
notBreaker == <<retryVars, schedVars, reqVars, healthVars, timeoutVars, splitVars, uploadVars, extractVars, queryVars>>
notPipeline == <<retryVars, breakerVars, healthVars, timeoutVars, splitVars, uploadVars, extractVars, queryVars>>
notHealth == <<retryVars, breakerVars, schedVars, reqVars, timeoutVars, splitVars, uploadVars, extractVars, queryVars>>
notTimeout == <<retryVars, breakerVars, schedVars, reqVars, healthVars, splitVars, uploadVars, extractVars, queryVars>>
notSplit == <<retryVars, breakerVars, schedVars, reqVars, healthVars, timeoutVars, uploadVars, extractVars, queryVars>>
notUpload == <<retryVars, breakerVars, schedVars, reqVars, healthVars, timeoutVars, splitVars, extractVars, queryVars>>
notExtract == <<retryVars, breakerVars, schedVars, reqVars, healthVars, timeoutVars, splitVars, uploadVars, queryVars>>
notQuery == <<retryVars, breakerVars, schedVars, reqVars, healthVars, timeoutVars, splitVars, uploadVars, extractVars>>

(***************************************************************************)
(* Bounds of the model.                                                    *)
(***************************************************************************)
MaxRetries == 5
MaxItems == 3
MaxLimit == 2
MaxPending == 2
MaxFailures == 5
MaxTicks == 8
TickMs == 30000
MaxRequests == 4
MaxDelta == 2
MaxCalls == 3
MaxTextLen == 6
MaxChunkSize == 2
MaxUploads == 2

(***************************************************************************)
(* Errors.  An OllamaError carries one of the ErrorTypes; "Error" stands   *)
(* for any error that is not an OllamaError (a transport error of the      *)
(* ollama client, for instance a refused connection), "MALFORMED" for the  *)
(* OptimizationError raised on a reply without generated text.             *)
(***************************************************************************)
ErrorTypes == {"MODEL_NOT_FOUND", "CONNECTION_ERROR", "TIMEOUT", "UNKNOWN", "AUTH_ERROR"}
AttemptErrors == {"MODEL_NOT_FOUND", "TIMEOUT", "Error", "MALFORMED"}
IsOllamaError(e) == e \in ErrorTypes

NoError == [type |-> "none", attempts |-> 0]
\* an error value: its kind and the attempt count its message carries (0: none)
Err(type, n) == [type |-> type, attempts |-> n]

(***************************************************************************)
(* withRetry                                                               *)
(***************************************************************************)
OLLAMA_RETRY_DELAY == 2000
CHUNK_RETRY_BASE_DELAY == 1000

RECURSIVE Pow2(_)
Pow2(n) == IF n <= 0 THEN 1 ELSE 2 * Pow2(n - 1)

\* the parameter delayMs / baseDelayMs at its default
BaseDelay(impl) ==
    IF impl = "ollama" THEN OLLAMA_RETRY_DELAY ELSE CHUNK_RETRY_BASE_DELAY

\* the delay armed after failed attempt a
RetryDelay(impl, a) ==
    IF impl = "ollama" THEN OLLAMA_RETRY_DELAY * a
    ELSE CHUNK_RETRY_BASE_DELAY * Pow2(a - 1)

IsFatalNever(impl, e) == FALSE
\* "Don't retry on certain errors"
IsFatal(impl, e) == impl = "ollama" /\ IsOllamaError(e) /\ e = "MODEL_NOT_FOUND"

NextAttemptStuck(a) == a
\* attempt++ of the for loop
NextAttempt(a) == a + 1

\* what withRetry throws when attempt = maxAttempts failed with e
ExhaustedError(impl, max, e) ==
    IF impl = "ollama" THEN Err("CONNECTION_ERROR", max) ELSE Err(e, 0)

\* the HTTP status of the response to a request whose chunk failed with err:
\* errorHandler behind the server's route (withRetry of lines 46-85), the
\* catch block of routes/files.ts behind the other (its timeout error reads
\* "Request timed out after N seconds", which is not 'Request timed out')
ResponseStatus(impl, err) ==
    IF impl = "ollama"
      THEN CASE err.type \in {"MODEL_NOT_FOUND", "CONNECTION_ERROR"} -> 503
             [] err.type = "TIMEOUT" -> 504
             [] err.type = "MALFORMED" -> 400
             [] OTHER -> 500
      ELSE IF err.type = "MALFORMED" THEN 422 ELSE 500

\* withTimeout: Promise.race([promise, timeout]) settles with error e; the
\* requests that are still unanswered afterwards
StillOutstanding(e, n) == IF e = "TIMEOUT" THEN {n, n - 1} ELSE {n - 1}

\* await operation() resolves
AttemptSucceeds ==
    /\ UNCHANGED notRetry
    /\ rpc = "call"
    /\ rpc' = "returned"
    /\ outstanding' = outstanding - 1
    /\ UNCHANGED <<retryImpl, maxAttempts, attempt, lastError, calls, thrown, delay,
                   retryCount, errorsSeen>>

\* await operation() rejects with e: the catch block
AttemptFails(e) ==
    /\ UNCHANGED notRetry
    /\ rpc = "call"
    /\ lastError' = e
    /\ IF IsFatal(retryImpl, e)
         THEN /\ rpc' = "threw"
              /\ thrown' = Err(e, 0)
              /\ delay' = delay
         ELSE IF attempt = maxAttempts
           THEN /\ rpc' = "threw"
                /\ thrown' = ExhaustedError(retryImpl, maxAttempts, e)
                /\ delay' = delay
           ELSE /\ rpc' = "backoff"
                /\ thrown' = thrown
                /\ delay' = RetryDelay(retryImpl, attempt)
    \* a TIMEOUT is the timer of withTimeout winning the race, which leaves
    \* the request pending, or the request's own timeout, which ends it
    /\ outstanding' \in StillOutstanding(e, outstanding)
    \* processChunk: catch (error) { retryCount++; throw error }
    /\ retryCount' = IF rpc' = "threw" THEN retryCount + 1 ELSE retryCount
    /\ errorsSeen' = errorsSeen \cup {e}
    /\ UNCHANGED <<retryImpl, maxAttempts, attempt, calls>>

\* the backoff timer fires: attempt++, loop test, next operation() or the
\* throw after the loop
BackoffElapses ==
    /\ UNCHANGED notRetry
    /\ rpc = "backoff"
    /\ attempt' = NextAttempt(attempt)
    /\ IF attempt' <= maxAttempts
         THEN /\ rpc' = "call"
              /\ calls' = calls + 1
              /\ outstanding' = outstanding + 1
              /\ thrown' = thrown
         ELSE /\ rpc' = "threw"
              /\ calls' = calls
              /\ outstanding' = outstanding
              /\ thrown' = Err(lastError, 0)
    /\ retryCount' = IF rpc' = "threw" THEN retryCount + 1 ELSE retryCount
    /\ UNCHANGED <<retryImpl, maxAttempts, lastError, delay, errorsSeen>>

\* a request whose withTimeout has already rejected is answered at last; the
\* answer is dropped
AbandonedRequestSettles ==
    /\ UNCHANGED notRetry
    /\ outstanding > (IF rpc = "call" THEN 1 ELSE 0)
    /\ outstanding' = outstanding - 1
    /\ UNCHANGED <<retryImpl, maxAttempts, attempt, lastError, rpc, calls, thrown, delay,
                   retryCount, errorsSeen>>

RetryNext ==
    \/ AttemptSucceeds
    \/ \E e \in AttemptErrors : AttemptFails(e)
    \/ BackoffElapses
    \/ AbandonedRequestSettles

(***************************************************************************)
(* CircuitBreaker                                                          *)
(***************************************************************************)
failureThreshold == 3
successThreshold == 2
timeout == 60000

Min(a, b) == IF a < b THEN a ELSE b

AdmitStates == {"closed", "half-open"}
PendingTotal(p) == p["closed"] + p["half-open"]

CooldownElapsedAtBoundary(t, last) == t - last >= timeout
CooldownNeverElapsed(t, last) == FALSE
\* Date.now() - this.lastFailure > this.config.timeout
CooldownElapsed(t, last) == t - last > timeout

FailureThresholdExceeded(f) == f > failureThreshold
FailureThresholdHit(f) == f = failureThreshold
\* this.failures >= this.config.failureThreshold
FailureThresholdReached(f) == f >= failureThreshold

SuccessThresholdExceeded(s) == s > successThreshold
SuccessThresholdNever(s) == FALSE
\* this.successes >= this.config.successThreshold
SuccessThresholdReached(s) == s >= successThreshold

\* execute(), first part, open and cooldown not elapsed: throw CircuitOpenError
ExecuteRejected ==
    /\ UNCHANGED notBreaker
    /\ state = "open"
    /\ ~CooldownElapsed(now, lastFailure)
    /\ execBit' = 1 - execBit
    /\ lastAdmit' = "circuit_open"
    /\ UNCHANGED <<state, failures, successes, lastFailure, now, pending, failRun,
                   hoSuccesses, lastSettle, failStreak, settledAdmit>>

\* execute(), first part, otherwise: (open -> half-open), then fn() is invoked
ExecuteAdmitted ==
    /\ UNCHANGED notBreaker
    /\ PendingTotal(pending) < MaxPending
    /\ state = "open" => CooldownElapsed(now, lastFailure)
    /\ state' = IF state = "open" THEN "half-open" ELSE state
    /\ hoSuccesses' = IF state = "open" THEN 0 ELSE hoSuccesses
    /\ pending' = [pending EXCEPT ![state'] = @ + 1]
    /\ execBit' = 1 - execBit
    /\ lastAdmit' = "admitted"
    /\ UNCHANGED <<failures, successes, lastFailure, now, failRun, lastSettle, failStreak,
                   settledAdmit>>

\* fn() resolves: handleSuccess(), reset()
CallSucceeds(a) ==
    /\ UNCHANGED notBreaker
    /\ pending[a] > 0
    /\ pending' = [pending EXCEPT ![a] = @ - 1]
    /\ IF state = "half-open"
         THEN IF SuccessThresholdReached(successes + 1)
                THEN /\ failures' = 0
                     /\ successes' = 0
                     /\ state' = "closed"
                ELSE /\ successes' = successes + 1
                     /\ UNCHANGED <<failures, state>>
         ELSE UNCHANGED <<failures, successes, state>>
    /\ failRun' = IF state' = "closed" /\ failures' = 0 /\ successes' = 0 THEN 0 ELSE -1
    /\ hoSuccesses' = IF hoSuccesses >= 0
                        THEN Min(hoSuccesses + 1, 2 * successThreshold)
                        ELSE hoSuccesses
    /\ lastSettle' = <<"success", state>>
    /\ settledAdmit' = a
    /\ failStreak' = 0
    /\ UNCHANGED <<lastFailure, now, execBit, lastAdmit>>

\* fn() rejects: handleFailure()
CallFails(a) ==
    /\ UNCHANGED notBreaker
    /\ pending[a] > 0
    /\ failures < MaxFailures
    /\ pending' = [pending EXCEPT ![a] = @ - 1]
    /\ failures' = failures + 1
    /\ IF FailureThresholdReached(failures')
         THEN /\ state' = "open"
              /\ lastFailure' = now
         ELSE UNCHANGED <<state, lastFailure>>
    /\ failRun' = IF failRun >= 0 THEN Min(failRun + 1, failureThreshold + 1) ELSE failRun
    /\ hoSuccesses' = -1
    /\ lastSettle' = <<"failure", state>>
    /\ settledAdmit' = a
    /\ failStreak' = Min(failStreak + 1, failureThreshold)
    /\ UNCHANGED <<successes, now, execBit, lastAdmit>>

\* time passes
Tick ==
    /\ UNCHANGED notBreaker
    /\ now < MaxTicks * TickMs
    /\ now' = now + TickMs
    /\ UNCHANGED <<state, failures, successes, lastFailure, pending, execBit, lastAdmit,
                   failRun, hoSuccesses, lastSettle, failStreak, settledAdmit>>

BreakerNext ==
    \/ ExecuteRejected
    \/ ExecuteAdmitted
    \/ \E a \in AdmitStates : CallSucceeds(a)
    \/ \E a \in AdmitStates : CallFails(a)
    \/ Tick

(***************************************************************************)
(* processWithConcurrencyLimit.  Items are numbered 1..nItems; the output  *)
(* of item t is Out(t).  An invocation of the processor on item t is       *)
(* <<t, k>>, the k-th call of processor(item t); inv[t][k] is "running"    *)
(* while it is in flight and "settled" afterwards.  An invocation settles  *)
(* with "ok" or with the terminal failure of its withRetry, "fatal" (model *)
(* not found) or "exhausted" (all attempts failed); what the outcome       *)
(* leaves behind is in the task's fields, in the awaited set and in the    *)
(* job's failure.                                                          *)
(***************************************************************************)
AllItems == 1..MaxItems
Failures == {"fatal", "exhausted"}
Undefined == <<>>
Out(t) == <<"out", t>>
NoFailure == [item |-> 0, call |-> 0, kind |-> "none", first |-> FALSE]
Failure(t, k, kind, first) == [item |-> t, call |-> k, kind |-> kind, first |-> first]

Range(seq) == {seq[i] : i \in 1..Len(seq)}
MapSeq(seq, f) == [i \in 1..Len(seq) |-> f[seq[i]]]

\* number of processor invocations in flight
RunningOf(calls_) == Cardinality({k \in 1..Len(calls_) : calls_[k] = "running"})
RECURSIVE SumRunning(_, _)
SumRunning(invf, t) == IF t = 0 THEN 0 ELSE RunningOf(invf[t]) + SumRunning(invf, t - 1)
InFlight == SumRunning(inv, MaxItems)
RECURSIVE SumStarted(_, _)
SumStarted(invf, t) == IF t = 0 THEN 0 ELSE Len(invf[t]) + SumStarted(invf, t - 1)

\* the scheduler's own state, as one record
Sched ==
    [inv |-> inv, completed |-> completed, result |-> result,
     activeTasks |-> activeTasks, results |-> results, nextItem |-> nextItem,
     awaited |-> awaited, spc |-> spc]

SchedIdle ==
    [inv |-> [t \in AllItems |-> <<>>], completed |-> [t \in AllItems |-> FALSE],
     result |-> [t \in AllItems |-> Undefined], activeTasks |-> <<>>, results |-> <<>>,
     nextItem |-> 1, awaited |-> {}, spc |-> "idle"]

\* task.completed && task.result !== undefined
Collectable(S, t) == S.completed[t] /\ S.result[t] # Undefined

\* "Remove completed tasks and collect results" (lines 110-115)
Collect(S) ==
    LET isDone(t) == Collectable(S, t)
        notDone(t) == ~Collectable(S, t)
    IN  [S EXCEPT !.results = S.results \o MapSeq(SelectSeq(S.activeTasks, isDone), S.result),
                  !.activeTasks = SelectSeq(S.activeTasks, notDone)]

\* [...activeTasks].map(task => task.execute()): every active task's processor
\* is invoked (again); the returned promises are the ones awaited
ExecuteAll(S, mode) ==
    LET act == Range(S.activeTasks)
        inv2 == [t \in AllItems |-> IF t \in act THEN Append(S.inv[t], "running")
                                    ELSE S.inv[t]]
    IN  [S EXCEPT !.inv = inv2,
                  !.awaited = {<<t, Len(inv2[t])>> : t \in act},
                  !.spc = mode]

\* lines 109-139 for item S.nextItem: collect, create the task, start it
IterBody(S) ==
    LET C == Collect(S)
        t == S.nextItem
    IN  [C EXCEPT !.activeTasks = Append(C.activeTasks, t),
                  !.inv = [C.inv EXCEPT ![t] = Append(@, "running")],
                  !.nextItem = t + 1,
                  !.awaited = {}]

\* lines 148-156: collect the remaining results and return
Finish(S) ==
    LET isDone(t) == Collectable(S, t)
    IN  [S EXCEPT !.results = S.results \o MapSeq(SelectSeq(S.activeTasks, isDone), S.result),
                  !.awaited = {},
                  !.spc = "returned"]

\* activeTasks.size >= limit
AtLimit(n, lim) == n >= lim

\* the for loop from the top of the iteration of S.nextItem up to the next
\* await (lines 102-146), or to the return
RECURSIVE RunLoop(_, _, _)
RunLoop(S, n, lim) ==
    IF S.nextItem > n
      THEN IF Len(S.activeTasks) > 0 THEN ExecuteAll(S, "all") ELSE Finish(S)
      ELSE IF AtLimit(Len(S.activeTasks), lim)
             THEN ExecuteAll(S, "race")
             ELSE RunLoop(IterBody(S), n, lim)

\* the tasks scheduler resumes after its await resolved
ResumeTasks(S, n, lim) ==
    IF S.spc = "race" THEN RunLoop(IterBody(S), n, lim) ELSE Finish(S)

(***************************************************************************)
(* The batch generation (lines 220-234, and processChunksWithLimit of      *)
(* routes/files.ts): slices of concurrentLimit items under Promise.all.    *)
(***************************************************************************)
BatchOf(i, n, lim) == {t \in 1..n : i <= t /\ t < i + lim}

\* one iteration of the for loop, up to its await (or the return)
StartBatch(S, n, lim) ==
    IF S.nextItem > n
      THEN [S EXCEPT !.awaited = {}, !.spc = "returned"]
      ELSE LET b == BatchOf(S.nextItem, n, lim)
               inv2 == [t \in AllItems |-> IF t \in b THEN Append(S.inv[t], "running")
                                           ELSE S.inv[t]]
           IN  [S EXCEPT !.inv = inv2,
                         !.awaited = {<<t, Len(inv2[t])>> : t \in b},
                         !.spc = "all"]

\* Promise.all resolved: results.push(...chunkResults), i += concurrentLimit
ResumeBatch(S, n, lim) ==
    LET i == S.nextItem
        hi == IF i + lim - 1 < n THEN i + lim - 1 ELSE n
        vals == [j \in 1..(hi - i + 1) |-> S.result[i + j - 1]]
    IN  StartBatch([S EXCEPT !.results = S.results \o vals, !.nextItem = i + lim], n, lim)

Start(impl, n, lim) ==
    IF impl = "tasks" THEN RunLoop(SchedIdle, n, lim) ELSE StartBatch(SchedIdle, n, lim)
Resume(impl, S, n, lim) ==
    IF impl = "tasks" THEN ResumeTasks(S, n, lim) ELSE ResumeBatch(S, n, lim)

\* invocation <<t, k>> settles with outcome o: the task's fields (execute(),
\* lines 120-131) and the promise the scheduler awaits.  Promise.race settles
\* with the first of its promises to settle, Promise.all resolves with the
\* last of its promises to resolve and rejects with the first to reject.
Settle(impl, S, n, lim, t, k, o) ==
    LET S1 == [S EXCEPT !.inv = [S.inv EXCEPT ![t] = [@ EXCEPT ![k] = "settled"]],
                        !.completed = IF impl = "tasks"
                                        THEN [S.completed EXCEPT ![t] = TRUE]
                                        ELSE S.completed,
                        !.result = IF o = "ok" THEN [S.result EXCEPT ![t] = Out(t)]
                                   ELSE S.result,
                        !.awaited = S.awaited \ {<<t, k>>}]
        isAwaited == <<t, k>> \in S.awaited /\ S.spc \in {"race", "all"}
    IN  IF ~isAwaited THEN S1
        ELSE IF o # "ok" THEN [S1 EXCEPT !.awaited = {}, !.spc = "rejected"]
        ELSE IF S.spc = "race" \/ S1.awaited = {} THEN Resume(impl, S1, n, lim)
        ELSE S1

(***************************************************************************)
(* POST /api/optimize.  With schedImpl = "tasks" the handler is the one of *)
(* server.ts (try / catch next(error) / finally deleteFile); with "batch"  *)
(* it is the one of routes/files.ts (inner try / finally deleteFile, outer *)
(* catch deleteFile and error response).  The request starts with its      *)
(* upload stored and the text extraction under way.                        *)
(***************************************************************************)
UnlinkKeeps(present) == present
\* storage.deleteFile: unlink(filepath), ENOENT swallowed
Unlink(present) == FALSE

SetSched(S) ==
    /\ inv' = S.inv
    /\ completed' = S.completed
    /\ result' = S.result
    /\ activeTasks' = S.activeTasks
    /\ results' = S.results
    /\ nextItem' = S.nextItem
    /\ awaited' = S.awaited
    /\ spc' = S.spc

\* the handler after processWithConcurrencyLimit settled with S.spc
AfterJob(S, kind) ==
    /\ deleteCalls' = deleteCalls + 1
    /\ hpc' = "deleting"
    /\ IF S.spc = "returned"
         THEN /\ response' = "ok"
              /\ failPoint' = failPoint
              /\ successfulRequests' = successfulRequests + 1
         ELSE /\ response' = IF schedImpl = "tasks" THEN "error" ELSE response
              /\ failPoint' = kind
              /\ successfulRequests' = successfulRequests
    /\ artifact' = artifact

\* extractTextContent / mammoth.extractRawText rejects
ExtractionFails ==
    /\ ~crashed
    /\ hpc = "extract"
    /\ failPoint' = "extraction"
    /\ response' = IF schedImpl = "tasks" THEN "error" ELSE response
    /\ deleteCalls' = deleteCalls + 1
    /\ hpc' = "deleting"
    /\ UNCHANGED <<artifact, crashed, refused, schedVars, totalRequests,
                   successfulRequests, failedRequests>>
    /\ UNCHANGED notPipeline

\* extraction resolves: the chunks are handed to processWithConcurrencyLimit,
\* which runs up to its first await
ExtractionSucceeds ==
    /\ ~crashed
    /\ hpc = "extract"
    /\ SetSched(Start(schedImpl, nItems, limit))
    /\ hpc' = "job"
    /\ UNCHANGED <<schedImpl, nItems, limit, jobError, anyFailure, startedAfterFailure,
                   artifact, deleteCalls, response, failPoint, crashed, refused,
                   totalRequests, successfulRequests, failedRequests>>
    /\ UNCHANGED notPipeline

\* invocation <<t, k>> settles with o; the scheduler and the handler run on
\* as far as the settled promise lets them
InvocationSettles(t, k, o) ==
    /\ ~crashed
    /\ t \in 1..nItems
    /\ k \in 1..Len(inv[t])
    /\ inv[t][k] = "running"
    /\ t = refused => o = "exhausted"
    /\ LET S2 == Settle(schedImpl, Sched, nItems, limit, t, k, o)
           pendingJob == spc \in {"race", "all"}
       IN  /\ SetSched(S2)
           /\ anyFailure' = (anyFailure \/ (o # "ok" /\ pendingJob))
           /\ jobError' = IF pendingJob /\ S2.spc = "rejected"
                            THEN Failure(t, k, o, ~anyFailure) ELSE jobError
           /\ startedAfterFailure' =
                (startedAfterFailure
                   \/ (anyFailure /\ SumStarted(S2.inv, MaxItems) > SumStarted(inv, MaxItems)))
           /\ IF hpc = "job" /\ S2.spc \in {"returned", "rejected"}
                THEN AfterJob(S2, o)
                ELSE UNCHANGED <<hpc, artifact, deleteCalls, response, failPoint,
                                 successfulRequests>>
           \* the promise of the first execute() (line 136) is nobody's to
           \* handle: its rejection is an unhandled rejection, which ends the
           \* process or is only reported, as the runtime is configured
           /\ IF schedImpl = "tasks" /\ k = 1 /\ o # "ok"
                THEN crashed' \in BOOLEAN
                ELSE crashed' = crashed
    /\ UNCHANGED <<schedImpl, nItems, limit, refused, totalRequests, failedRequests>>
    /\ UNCHANGED notPipeline

\* the unlink of a deleteFile call completes
UnlinkCompletes ==
    /\ ~crashed
    /\ hpc \in {"deleting", "deleting2"}
    /\ artifact' = Unlink(artifact)
    /\ IF hpc = "deleting" /\ schedImpl = "batch" /\ failPoint # "none"
         THEN \* outer catch of routes/files.ts: second deleteFile
              /\ hpc' = "deleting2"
              /\ deleteCalls' = deleteCalls + 1
              /\ failedRequests' = failedRequests + 1
              /\ response' = response
         ELSE /\ hpc' = "done"
              /\ deleteCalls' = deleteCalls
              /\ failedRequests' = failedRequests
              /\ response' = IF hpc = "deleting2" THEN "error" ELSE response
    /\ UNCHANGED <<failPoint, crashed, refused, schedVars, totalRequests,
                   successfulRequests>>
    /\ UNCHANGED notPipeline

\* the same on a runtime that ends the process on an unhandled rejection
\* (the default of Node.js since version 15)
InvocationSettlesOrExits(t, k, o) ==
    /\ InvocationSettles(t, k, o)
    /\ (schedImpl = "tasks" /\ k = 1 /\ o # "ok") => crashed'

Outcomes == {"ok"} \cup Failures

\* the retry maximum of the chunk pipeline
CHUNK_RETRY_ATTEMPTS == 5

\* the status of the response to a job that failed on exhausted retries against
\* a refusing endpoint: errorHandler for the server's route (the error is an
\* OllamaError CONNECTION_ERROR), the catch block of routes/files.ts otherwise
\* (the error is the last attempt's own)
ExhaustedStatus(impl) == IF impl = "tasks" THEN 503 ELSE 500

\* inference attempts made so far for the refused item: every settled
\* invocation made all its attempts, every running one at least its first
RefusedAttempts ==
    IF refused = 0 THEN 0
    ELSE LET c == inv[refused]
             settled == Cardinality({k \in 1..Len(c) : c[k] = "settled"})
         IN  CHUNK_RETRY_ATTEMPTS * settled + RunningOf(c)

PipelineNext ==
    \/ ExtractionFails
    \/ ExtractionSucceeds
    \/ \E t \in AllItems, k \in 1..(MaxItems + 2), o \in Outcomes : InvocationSettles(t, k, o)
    \/ UnlinkCompletes

PipelineNextExit ==
    \/ ExtractionFails
    \/ ExtractionSucceeds
    \/ \E t \in AllItems, k \in 1..(MaxItems + 2), o \in Outcomes :
          InvocationSettlesOrExits(t, k, o)
    \/ UnlinkCompletes

(***************************************************************************)
(* GET /api/v1/health: every request constructs a HealthMonitor, which     *)
(* constructs a CircuitBreaker, and runs performHealthCheck through it.    *)
(* health[r] is request r: its breaker's fields, its outcome ("pending",   *)
(* "ok", "failed" or "circuit_open") and the number of health requests     *)
(* that had failed when it arrived.                                        *)
(***************************************************************************)
\* the fields of a CircuitBreaker after construction
NewBreaker == [state |-> "closed", failures |-> 0, successes |-> 0, lastFailure |-> 0]

\* execute() on breaker b at time t, up to the call of fn()
Admit(b, t) ==
    IF b.state = "open"
      THEN IF CooldownElapsed(t, b.lastFailure)
             THEN [breaker |-> [b EXCEPT !.state = "half-open"], outcome |-> "pending"]
             ELSE [breaker |-> b, outcome |-> "circuit_open"]
      ELSE [breaker |-> b, outcome |-> "pending"]

\* handleSuccess() and reset() on breaker b
OnSuccess(b) ==
    IF b.state = "half-open"
      THEN IF SuccessThresholdReached(b.successes + 1)
             THEN [b EXCEPT !.failures = 0, !.successes = 0, !.state = "closed"]
             ELSE [b EXCEPT !.successes = @ + 1]
      ELSE b

\* handleFailure() on breaker b at time t
OnFailure(b, t) ==
    IF FailureThresholdReached(b.failures + 1)
      THEN [b EXCEPT !.failures = @ + 1, !.state = "open", !.lastFailure = t]
      ELSE [b EXCEPT !.failures = @ + 1]

FailedRequests(h) == Cardinality({r \in 1..Len(h) : h[r].outcome = "failed"})

\* a health request arrives: new HealthMonitor(...).performHealthCheck()
HealthCheckArrives ==
    /\ UNCHANGED notHealth
    /\ Len(health) < MaxRequests
    /\ LET a == Admit(NewBreaker, now)
       IN  health' = Append(health, [breaker |-> a.breaker, outcome |-> a.outcome,
                                     failedBefore |-> FailedRequests(health)])

\* the health check of request r resolves (ok) or rejects
HealthCheckSettles(r, ok) ==
    /\ UNCHANGED notHealth
    /\ r \in 1..Len(health)
    /\ health[r].outcome = "pending"
    /\ health' = [health EXCEPT ![r] =
                    [@ EXCEPT !.breaker = IF ok THEN OnSuccess(@) ELSE OnFailure(@, now),
                              !.outcome = IF ok THEN "ok" ELSE "failed"]]

HealthNext ==
    \/ HealthCheckArrives
    \/ \E r \in 1..MaxRequests, ok \in BOOLEAN : HealthCheckSettles(r, ok)

(***************************************************************************)
(* calculateTimeout: the time budget of one inference call.  Version A     *)
(* adds 0.05 ms per character, so every duration is counted in units of    *)
(* 1/TimeScale ms, which keeps the arithmetic in the integers.             *)
(***************************************************************************)
TimeScale == 20
REQUEST_TIMEOUT == 60000
INITIAL_PROMPT_TIMEOUT == 90000
MAX_TIMEOUT == 120000
BASE_MODEL == 45000
MAX_MODEL == 120000
CHAR_TIME == 5

\* the result is not clamped
CalculateTimeoutUnclamped(impl, len, first) ==
    IF impl = "A"
    THEN IF first THEN INITIAL_PROMPT_TIMEOUT * TimeScale
         ELSE REQUEST_TIMEOUT * TimeScale + len
    ELSE (BASE_MODEL + len * CHAR_TIME) * TimeScale

CalculateTimeout(impl, len, first) ==
    IF impl = "A"
    THEN IF first THEN INITIAL_PROMPT_TIMEOUT * TimeScale
         ELSE Min(REQUEST_TIMEOUT * TimeScale + len, MAX_TIMEOUT * TimeScale)
    ELSE Min((BASE_MODEL + len * CHAR_TIME) * TimeScale, MAX_MODEL * TimeScale)

\* the least length whose budget reaches the maximum
ClampThreshold(impl) ==
    IF impl = "A" THEN (MAX_TIMEOUT - REQUEST_TIMEOUT) * TimeScale
    ELSE (MAX_MODEL - BASE_MODEL) \div CHAR_TIME

\* the lengths tried: around 0 and around the clamp threshold of either version
Lengths ==
    {n \in UNION {(a - MaxDelta)..(a + MaxDelta) :
                  a \in {0, ClampThreshold("A"), ClampThreshold("B")}} : n >= 0}

CalculateTimeoutCall(len) ==
    /\ ctCalls < MaxCalls
    /\ ctCalls' = ctCalls + 1
    /\ prevLength' = contentLength
    /\ prevOut' = ctOut
    /\ contentLength' = len
    /\ ctOut' = CalculateTimeout(ctImpl, len, isFirstRequest)
    /\ UNCHANGED <<ctImpl, isFirstRequest>>
    /\ UNCHANGED notTimeout

TimeoutNext == \E len \in Lengths : CalculateTimeoutCall(len)

(***************************************************************************)
(* splitContent.  A text is a sequence of characters: "a" a letter, "." a  *)
(* sentence terminator (one of . ! ?), "N" a line break.  MAX_SIZE is the  *)
(* maximum chunk size, scaled down; the route splits a text only when it   *)
(* is longer than twice that size (2000 against 1000).                     *)
(***************************************************************************)
Chars == {"a", ".", "N"}
Terminators == {"."}
NonTerminators == Chars \ Terminators
MAX_SIZE == MaxChunkSize
SplitThreshold == 2 * MAX_SIZE
Texts == UNION {[1..n -> Chars] : n \in 0..MaxTextLen}

\* the last index of the run of characters of set cs that starts at index i
RunEnd(s, i, cs) ==
    CHOOSE j \in i..Len(s) :
        /\ \A k \in i..j : s[k] \in cs
        /\ j = Len(s) \/ s[j + 1] \notin cs

\* text.split(/\n\n+/)
RECURSIVE SplitParagraphsFrom(_, _, _, _)
SplitParagraphsFrom(s, i, cur, acc) ==
    IF i > Len(s) THEN Append(acc, cur)
    ELSE IF s[i] = "N" /\ RunEnd(s, i, {"N"}) > i
         THEN SplitParagraphsFrom(s, RunEnd(s, i, {"N"}) + 1, <<>>, Append(acc, cur))
         ELSE SplitParagraphsFrom(s, i + 1, Append(cur, s[i]), acc)

SplitParagraphs(s) == SplitParagraphsFrom(s, 1, <<>>, <<>>)

\* paragraph.match(/[^.!?]+[.!?]+/g): the matches from position pos on
RECURSIVE MatchSentencesFrom(_, _, _)
MatchSentencesFrom(p, pos, acc) ==
    IF pos > Len(p) THEN acc
    ELSE IF p[pos] \in Terminators THEN MatchSentencesFrom(p, pos + 1, acc)
    ELSE LET e == RunEnd(p, pos, NonTerminators)
         IN  IF e = Len(p) THEN acc
             ELSE LET f == RunEnd(p, e + 1, Terminators)
                  IN  MatchSentencesFrom(p, f + 1, Append(acc, SubSeq(p, pos, f)))

\* paragraph.match(...) || [paragraph]
MatchSentences(p) ==
    IF MatchSentencesFrom(p, 1, <<>>) = <<>> THEN <<p>> ELSE MatchSentencesFrom(p, 1, <<>>)

\* the loop over the sentences of an oversized paragraph, and the push after it
RECURSIVE SentenceLoop(_, _, _, _)
SentenceLoop(sentences, i, sentenceChunk, acc) ==
    IF i > Len(sentences)
    THEN IF sentenceChunk # <<>> THEN Append(acc, sentenceChunk) ELSE acc
    ELSE IF Len(sentenceChunk \o sentences[i]) <= MAX_SIZE
         THEN SentenceLoop(sentences, i + 1, sentenceChunk \o sentences[i], acc)
         ELSE SentenceLoop(sentences, i + 1, sentences[i],
                           IF sentenceChunk # <<>> THEN Append(acc, sentenceChunk) ELSE acc)

\* the loop over the paragraphs, and the push after it
RECURSIVE ParagraphLoop(_, _, _, _)
ParagraphLoop(paragraphs, i, currentChunk, acc) ==
    IF i > Len(paragraphs)
    THEN IF currentChunk # <<>> THEN Append(acc, currentChunk) ELSE acc
    ELSE LET paragraph == paragraphs[i]
         IN  IF Len(paragraph) > MAX_SIZE
             THEN ParagraphLoop(paragraphs, i + 1, <<>>,
                      SentenceLoop(MatchSentences(paragraph), 1, <<>>,
                          IF currentChunk # <<>> THEN Append(acc, currentChunk) ELSE acc))
             ELSE IF Len(currentChunk \o paragraph) <= MAX_SIZE
                  THEN ParagraphLoop(paragraphs, i + 1,
                           currentChunk \o (IF currentChunk # <<>> THEN <<"N", "N">> ELSE <<>>)
                                        \o paragraph, acc)
                  ELSE ParagraphLoop(paragraphs, i + 1, paragraph,
                           IF currentChunk # <<>> THEN Append(acc, currentChunk) ELSE acc)

SplitContent(s) == ParagraphLoop(SplitParagraphs(s), 1, <<>>, <<>>)

\* results.join('\n\n')
RECURSIVE JoinChunks(_)
JoinChunks(cs) ==
    IF cs = <<>> THEN <<>>
    ELSE IF Len(cs) = 1 THEN cs[1]
    ELSE cs[1] \o <<"N", "N">> \o JoinChunks(Tail(cs))

IsNotWhitespace(c) == c # "N"
NonWhitespace(s) == SelectSeq(s, IsNotWhitespace)

\* s holds at most one sentence: no paragraph break, and nothing after its
\* terminators
IsSingleSentence(s) ==
    /\ \A k \in 1..(Len(s) - 1) : ~(s[k] = "N" /\ s[k + 1] = "N")
    /\ \A k \in 1..(Len(s) - 1) : s[k] \in Terminators => s[k + 1] \in Terminators

SplitContentCall ==
    /\ ~splitDone
    /\ chunks' = SplitContent(text)
    /\ splitDone' = TRUE
    /\ UNCHANGED <<text, contentChunks, submitDone>>
    /\ UNCHANGED notSplit

\* const contentChunks = text.length > 2000 ? splitContent(text) : [text]
FormContentChunks ==
    /\ ~submitDone
    /\ contentChunks' = IF Len(text) > SplitThreshold THEN SplitContent(text) ELSE <<text>>
    /\ submitDone' = TRUE
    /\ UNCHANGED <<text, chunks, splitDone>>
    /\ UNCHANGED notSplit

SplitNext == SplitContentCall \/ FormContentChunks

(***************************************************************************)
(* Ingesting an upload: handleFileUpload of the upload middleware          *)
(* ("middleware") and the in-route upload of routes/files.ts ("route").    *)
(* save: "none" | "writing" | "done" | "failed" is Storage.saveFile;       *)
(* stored: the file exists in the upload directory; meta: fileMetadata is  *)
(* assigned; timedOut: the upload timer has won the race; finished: the    *)
(* parser has emitted 'finish'; result: the promise of the upload.         *)
(***************************************************************************)
UploadImpls == {"middleware", "route"}

\* reject(error) and resolve(value): the first settlement stays
Reject(u) == [u EXCEPT !.result = IF @ = "pending" THEN "rejected" ELSE @]
Resolve(u) == [u EXCEPT !.result = IF @ = "pending" THEN "resolved" ELSE @]

\* bb.on('file'): an invalid type is refused before anything is saved;
\* otherwise saveFile opens its write stream
FileEvent(impl, valid) ==
    /\ Len(uploads) < MaxUploads
    /\ uploads' = Append(uploads,
                     [impl |-> impl,
                      save |-> IF valid THEN "writing" ELSE "none",
                      stored |-> valid,
                      meta |-> FALSE,
                      timedOut |-> FALSE,
                      finished |-> FALSE,
                      result |-> IF valid THEN "pending" ELSE "rejected"])
    /\ UNCHANGED notUpload

\* the file of a save that has run to its end stays where saveFile wrote it
SaveCompleted(u) ==
    LET saved == [u EXCEPT !.save = "done"]
    IN  IF u.timedOut THEN saved
        ELSE IF u.impl = "route" THEN Resolve([saved EXCEPT !.meta = TRUE])
        ELSE [saved EXCEPT !.meta = TRUE]

\* saveFile resolves: the write stream has finished and the size matches
SaveCompletes(r) ==
    /\ r \in DOMAIN uploads
    /\ uploads[r].save = "writing"
    /\ uploads' = [uploads EXCEPT ![r] = SaveCompleted(@)]
    /\ UNCHANGED notUpload

\* saveFile rejects (stream error, size mismatch) after deleting its file
SaveFails(r) ==
    /\ r \in DOMAIN uploads
    /\ uploads[r].save = "writing"
    /\ uploads' = [uploads EXCEPT ![r] =
                     LET failed == [@ EXCEPT !.save = "failed", !.stored = FALSE]
                     IN  IF @.timedOut THEN failed ELSE Reject(failed)]
    /\ UNCHANGED notUpload

\* the timer of TIMEOUTS.UPLOAD wins Promise.race: the catch block finds no
\* fileMetadata and rejects; saveFile goes on
UploadTimerFires(r) ==
    /\ r \in DOMAIN uploads
    /\ uploads[r].impl = "middleware"
    /\ uploads[r].save = "writing"
    /\ ~uploads[r].timedOut
    /\ uploads' = [uploads EXCEPT ![r] = Reject([@ EXCEPT !.timedOut = TRUE])]
    /\ UNCHANGED notUpload

\* bb.on('finish'): the request body has been parsed to its end
ParserFinishes(r) ==
    /\ r \in DOMAIN uploads
    /\ ~uploads[r].finished
    /\ uploads' = [uploads EXCEPT ![r] =
                     LET u == [@ EXCEPT !.finished = TRUE]
                     IN  IF ~u.meta THEN Reject(u)
                         ELSE IF u.impl = "middleware" THEN Resolve(u)
                         ELSE u]
    /\ UNCHANGED notUpload

UploadNext ==
    \/ \E impl \in UploadImpls, valid \in BOOLEAN : FileEvent(impl, valid)
    \/ \E r \in 1..MaxUploads : SaveCompletes(r)
    \/ \E r \in 1..MaxUploads : SaveFails(r)
    \/ \E r \in 1..MaxUploads : UploadTimerFires(r)
    \/ \E r \in 1..MaxUploads : ParserFinishes(r)

(***************************************************************************)
(* Text extraction and the response to its failure.  An error is the pair  *)
(* of its class and, for an OptimizationError, its processingStatus.       *)
(***************************************************************************)
\* mammoth.extractRawText: a result whose value is a non-empty string, an
\* empty string or no string; a null result; a rejection
DecodeOutcomes == {"string", "empty", "nonstring", "null", "throws"}
\* fs.readFile(filepath, 'utf8')
ReadOutcomes == {"string", "empty", "throws"}

NoExtraction == [kind |-> "none", class |-> "none", status |-> "none"]
NoResponse == [status |-> 0, retryCount |-> FALSE, processingTime |-> FALSE]
Returned(v) == [kind |-> "returned", class |-> v, status |-> "none"]
Threw(class, status) == [kind |-> "threw", class |-> class, status |-> status]

\* processDocxFile
ProcessDocxFile(loaded, d) ==
    IF ~loaded THEN Threw("OptimizationError", "module_unavailable")
    ELSE IF d \in {"string", "empty"} THEN Returned(d)
    ELSE Threw("OptimizationError", "docx_conversion_failed")

\* processTextFile
ProcessTextFile(rd) ==
    IF rd = "throws" THEN Threw("ErrnoException", "none") ELSE Returned(rd)

\* the catch block lets every error through as it is
RethrowAsIs(r) == r

\* the catch block of extractTextContent
WrapError(r) ==
    IF r.kind = "threw" /\ r.class # "OptimizationError"
      THEN Threw("OptimizationError", "extraction_failed")
      ELSE r

\* the try block of extractTextContent
ExtractBody(docx, stat, loaded, d, rd) ==
    IF ~stat THEN Threw("ErrnoException", "none")
    ELSE LET content == IF docx THEN ProcessDocxFile(loaded, d) ELSE ProcessTextFile(rd)
         IN  IF content.kind = "threw" THEN content
             ELSE IF content.class = "empty"
                    THEN Threw("OptimizationError", "empty_content")
                    ELSE content

ExtractTextContent(docx, stat, loaded, d, rd) ==
    WrapError(ExtractBody(docx, stat, loaded, d, rd))

\* routes/files.ts: mammoth.extractRawText(...).catch(...), result.value
ExtractInRoute(d) ==
    IF d = "throws" THEN Threw("OptimizationError", "none")
    ELSE IF d = "null" THEN Threw("TypeError", "none")
    ELSE Returned(d)

\* the response to an error: errorHandler for the server's route, the catch
\* block of routes/files.ts otherwise
ErrorResponse(route, class) ==
    IF route = "server"
      THEN [status |-> IF class = "OptimizationError" THEN 400 ELSE 500,
            retryCount |-> FALSE, processingTime |-> FALSE]
      ELSE [status |-> IF class = "OptimizationError" THEN 422 ELSE 500,
            retryCount |-> TRUE, processingTime |-> TRUE]

ExtractionSettles ==
    /\ exPc = "start"
    /\ exResult' = IF exRoute = "server"
                     THEN ExtractTextContent(isDocx, statOk, mammothLoaded, decode, readText)
                     ELSE ExtractInRoute(decode)
    /\ exPc' = "extracted"
    /\ UNCHANGED <<exRoute, isDocx, statOk, mammothLoaded, decode, readText, exResponse>>
    /\ UNCHANGED notExtract

\* the extraction has failed: the handler's catch block answers
FailureResponse ==
    /\ exPc = "extracted"
    /\ exResult.kind = "threw"
    /\ exResponse' = ErrorResponse(exRoute, exResult.class)
    /\ exPc' = "responded"
    /\ UNCHANGED <<exRoute, isDocx, statOk, mammothLoaded, decode, readText, exResult>>
    /\ UNCHANGED notExtract

ExtractNext == ExtractionSettles \/ FailureResponse

(***************************************************************************)
(* GET /health of server.ts: the probe of the inference endpoint           *)
(* (getServiceStatus) and the probe of the storage run together; if the    *)
(* endpoint is not healthy a recovery is attempted and the endpoint is     *)
(* probed again; the status is computed from the latest probe results.     *)
(***************************************************************************)
\* ollama.checkHealth(): true, false, an OllamaError of some type, or
\* another error ("Error")
ProbeOutcomes ==
    {"true", "false", "MODEL_NOT_FOUND", "CONNECTION_ERROR", "TIMEOUT", "UNKNOWN", "Error"}

NoServiceStatus == [running |-> FALSE, healthy |-> FALSE, status |-> "none"]

\* getServiceStatus().ollama
GetServiceStatus(running, probe) ==
    [running |-> running,
     healthy |-> running /\ probe = "true",
     status |-> IF ~running THEN "unavailable"
                ELSE CASE probe = "true" -> "available"
                       [] probe = "false" -> "degraded"
                       [] probe = "MODEL_NOT_FOUND" -> "degraded"
                       [] probe \in {"CONNECTION_ERROR", "TIMEOUT"} -> "unavailable"
                       [] probe = "Error" -> "unavailable"
                       [] OTHER -> "error"]

\* the status when the storage probe is left out
HealthStatusOllamaOnly(ollamaHealthy, storageOk) ==
    IF ollamaHealthy THEN "healthy" ELSE "degraded"

\* (serviceStatus.ollama.healthy && storageStatus) ? 'healthy' : 'degraded'
HealthStatus(ollamaHealthy, storageOk) ==
    IF ollamaHealthy /\ storageOk THEN "healthy" ELSE "degraded"

\* Promise.all([getServiceStatus(), storage.checkHealth()]) resolves; with a
\* healthy endpoint the response follows at once
ProbesSettle(running, probe, storageOk) ==
    /\ hqPc = "probing"
    /\ serviceStatus' = GetServiceStatus(running, probe)
    /\ storageStatus' = storageOk
    /\ firstHealthy' = serviceStatus'.healthy
    /\ IF serviceStatus'.healthy
         THEN /\ hqPc' = "responded"
              /\ hqStatus' = HealthStatus(serviceStatus'.healthy, storageOk)
         ELSE /\ hqPc' = "recovering"
              /\ hqStatus' = hqStatus
    /\ UNCHANGED <<recovered, jobsFailed>>
    /\ UNCHANGED notQuery

\* ensureOllamaRunning() returns; its result is not looked at
RecoveryReturns(ok) ==
    /\ hqPc = "recovering"
    /\ recovered' = ok
    /\ hqPc' = "reprobing"
    /\ UNCHANGED <<serviceStatus, storageStatus, firstHealthy, hqStatus, jobsFailed>>
    /\ UNCHANGED notQuery

\* the second getServiceStatus() resolves; res.json
RecoveryProbeSettles(running, probe) ==
    /\ hqPc = "reprobing"
    /\ serviceStatus' = GetServiceStatus(running, probe)
    /\ hqStatus' = HealthStatus(serviceStatus'.healthy, storageStatus)
    /\ hqPc' = "responded"
    /\ UNCHANGED <<storageStatus, firstHealthy, recovered, jobsFailed>>
    /\ UNCHANGED notQuery

\* an optimize job fails, before, during or after the query
JobFails ==
    /\ jobsFailed < MaxRequests
    /\ jobsFailed' = jobsFailed + 1
    /\ UNCHANGED <<hqPc, serviceStatus, storageStatus, firstHealthy, recovered, hqStatus>>
    /\ UNCHANGED notQuery

QueryNext ==
    \/ \E running \in BOOLEAN, probe \in ProbeOutcomes, storageOk \in BOOLEAN :
          ProbesSettle(running, probe, storageOk)
    \/ \E ok \in BOOLEAN : RecoveryReturns(ok)
    \/ \E running \in BOOLEAN, probe \in ProbeOutcomes : RecoveryProbeSettles(running, probe)
    \/ JobFails

(***************************************************************************)
(* Specifications: one per component, the other components at rest.        *)
(* SpecPipeline leaves open what an unhandled rejection does to the        *)
(* process; SpecPipelineExit is the pipeline on a runtime where it ends    *)
(* the process.                                                            *)
(***************************************************************************)
\* withRetry has just been called: the first operation() is under way
InitRetry ==
    /\ retryImpl \in {"ollama", "chunk"}
    /\ maxAttempts \in 1..MaxRetries
    /\ attempt = 1
    /\ lastError = "none"
    /\ rpc = "call"
    /\ calls = 1
    /\ thrown = NoError
    /\ delay = 0
    /\ outstanding = 1
    /\ retryCount = 0
    /\ errorsSeen = {}
    /\ state = "closed"
    /\ failures = 0
    /\ successes = 0
    /\ lastFailure = 0
    /\ now = 0
    /\ pending = [a \in AdmitStates |-> 0]
    /\ execBit = 0
    /\ lastAdmit = "none"
    /\ failRun = 0
    /\ hoSuccesses = -1
    /\ lastSettle = <<"none", "closed">>
    /\ settledAdmit = "none"
    /\ failStreak = 0
    /\ schedImpl = "tasks"
    /\ nItems = 1
    /\ limit = 1
    /\ inv = SchedIdle.inv
    /\ completed = SchedIdle.completed
    /\ result = SchedIdle.result
    /\ activeTasks = <<>>
    /\ results = <<>>
    /\ nextItem = 1
    /\ awaited = {}
    /\ spc = "idle"
    /\ jobError = NoFailure
    /\ anyFailure = FALSE
    /\ startedAfterFailure = FALSE
    /\ hpc = "idle"
    /\ artifact = FALSE
    /\ deleteCalls = 0
    /\ response = "none"
    /\ failPoint = "none"
    /\ crashed = FALSE
    /\ totalRequests = 0
    /\ successfulRequests = 0
    /\ failedRequests = 0
    /\ refused = 0
    /\ health = <<>>
    /\ ctImpl = "A"
    /\ isFirstRequest = FALSE
    /\ ctCalls = 0
    /\ contentLength = 0
    /\ ctOut = 0
    /\ prevLength = 0
    /\ prevOut = 0
    /\ text = <<>>
    /\ chunks = <<>>
    /\ splitDone = FALSE
    /\ contentChunks = <<>>
    /\ submitDone = FALSE
    /\ uploads = <<>>
    /\ exRoute = "server"
    /\ isDocx = FALSE
    /\ statOk = TRUE
    /\ mammothLoaded = TRUE
    /\ decode = "string"
    /\ readText = "string"
    /\ exPc = "start"
    /\ exResult = NoExtraction
    /\ exResponse = NoResponse
    /\ hqPc = "probing"
    /\ serviceStatus = NoServiceStatus
    /\ storageStatus = FALSE
    /\ firstHealthy = FALSE
    /\ recovered = FALSE
    /\ hqStatus = "none"
    /\ jobsFailed = 0

\* a CircuitBreaker has just been constructed
InitBreaker ==
    /\ retryImpl = "ollama"
    /\ maxAttempts = 1
    /\ attempt = 1
    /\ lastError = "none"
    /\ rpc = "idle"
    /\ calls = 0
    /\ thrown = NoError
    /\ delay = 0
    /\ outstanding = 0
    /\ retryCount = 0
    /\ errorsSeen = {}
    /\ state = "closed"
    /\ failures = 0
    /\ successes = 0
    /\ lastFailure = 0
    /\ now \in {TickMs}
    /\ pending = [a \in AdmitStates |-> 0]
    /\ execBit = 0
    /\ lastAdmit = "none"
    /\ failRun = 0
    /\ hoSuccesses = -1
    /\ lastSettle = <<"none", "closed">>
    /\ settledAdmit = "none"
    /\ failStreak = 0
    /\ schedImpl = "tasks"
    /\ nItems = 1
    /\ limit = 1
    /\ inv = SchedIdle.inv
    /\ completed = SchedIdle.completed
    /\ result = SchedIdle.result
    /\ activeTasks = <<>>
    /\ results = <<>>
    /\ nextItem = 1
    /\ awaited = {}
    /\ spc = "idle"
    /\ jobError = NoFailure
    /\ anyFailure = FALSE
    /\ startedAfterFailure = FALSE
    /\ hpc = "idle"
    /\ artifact = FALSE
    /\ deleteCalls = 0
    /\ response = "none"
    /\ failPoint = "none"
    /\ crashed = FALSE
    /\ totalRequests = 0
    /\ successfulRequests = 0
    /\ failedRequests = 0
    /\ refused = 0
    /\ health = <<>>
    /\ ctImpl = "A"
    /\ isFirstRequest = FALSE
    /\ ctCalls = 0
    /\ contentLength = 0
    /\ ctOut = 0
    /\ prevLength = 0
    /\ prevOut = 0
    /\ text = <<>>
    /\ chunks = <<>>
    /\ splitDone = FALSE
    /\ contentChunks = <<>>
    /\ submitDone = FALSE
    /\ uploads = <<>>
    /\ exRoute = "server"
    /\ isDocx = FALSE
    /\ statOk = TRUE
    /\ mammothLoaded = TRUE
    /\ decode = "string"
    /\ readText = "string"
    /\ exPc = "start"
    /\ exResult = NoExtraction
    /\ exResponse = NoResponse
    /\ hqPc = "probing"
    /\ serviceStatus = NoServiceStatus
    /\ storageStatus = FALSE
    /\ firstHealthy = FALSE
    /\ recovered = FALSE
    /\ hqStatus = "none"
    /\ jobsFailed = 0

\* POST /api/optimize: the upload is stored, the extraction is under way
InitPipeline ==
    /\ retryImpl = "ollama"
    /\ maxAttempts = 1
    /\ attempt = 1
    /\ lastError = "none"
    /\ rpc = "idle"
    /\ calls = 0
    /\ thrown = NoError
    /\ delay = 0
    /\ outstanding = 0
    /\ retryCount = 0
    /\ errorsSeen = {}
    /\ state = "closed"
    /\ failures = 0
    /\ successes = 0
    /\ lastFailure = 0
    /\ now = 0
    /\ pending = [a \in AdmitStates |-> 0]
    /\ execBit = 0
    /\ lastAdmit = "none"
    /\ failRun = 0
    /\ hoSuccesses = -1
    /\ lastSettle = <<"none", "closed">>
    /\ settledAdmit = "none"
    /\ failStreak = 0
    /\ schedImpl \in {"tasks", "batch"}
    /\ nItems \in 1..MaxItems
    /\ limit \in 1..MaxLimit
    /\ inv = SchedIdle.inv
    /\ completed = SchedIdle.completed
    /\ result = SchedIdle.result
    /\ activeTasks = <<>>
    /\ results = <<>>
    /\ nextItem = 1
    /\ awaited = {}
    /\ spc = "idle"
    /\ jobError = NoFailure
    /\ anyFailure = FALSE
    /\ startedAfterFailure = FALSE
    /\ hpc = "extract"
    /\ artifact = TRUE
    /\ deleteCalls = 0
    /\ response = "none"
    /\ failPoint = "none"
    /\ crashed = FALSE
    /\ totalRequests = 1
    /\ successfulRequests = 0
    /\ failedRequests = 0
    /\ refused = 0
    /\ health = <<>>
    /\ ctImpl = "A"
    /\ isFirstRequest = FALSE
    /\ ctCalls = 0
    /\ contentLength = 0
    /\ ctOut = 0
    /\ prevLength = 0
    /\ prevOut = 0
    /\ text = <<>>
    /\ chunks = <<>>
    /\ splitDone = FALSE
    /\ contentChunks = <<>>
    /\ submitDone = FALSE
    /\ uploads = <<>>
    /\ exRoute = "server"
    /\ isDocx = FALSE
    /\ statOk = TRUE
    /\ mammothLoaded = TRUE
    /\ decode = "string"
    /\ readText = "string"
    /\ exPc = "start"
    /\ exResult = NoExtraction
    /\ exResponse = NoResponse
    /\ hqPc = "probing"
    /\ serviceStatus = NoServiceStatus
    /\ storageStatus = FALSE
    /\ firstHealthy = FALSE
    /\ recovered = FALSE
    /\ hqStatus = "none"
    /\ jobsFailed = 0

\* POST /api/optimize while the inference endpoint refuses every connection
\* made for one of the chunks
InitRefused ==
    /\ retryImpl = "ollama"
    /\ maxAttempts = 1
    /\ attempt = 1
    /\ lastError = "none"
    /\ rpc = "idle"
    /\ calls = 0
    /\ thrown = NoError
    /\ delay = 0
    /\ outstanding = 0
    /\ retryCount = 0
    /\ errorsSeen = {}
    /\ state = "closed"
    /\ failures = 0
    /\ successes = 0
    /\ lastFailure = 0
    /\ now = 0
    /\ pending = [a \in AdmitStates |-> 0]
    /\ execBit = 0
    /\ lastAdmit = "none"
    /\ failRun = 0
    /\ hoSuccesses = -1
    /\ lastSettle = <<"none", "closed">>
    /\ settledAdmit = "none"
    /\ failStreak = 0
    /\ schedImpl \in {"tasks", "batch"}
    /\ nItems \in 1..MaxItems
    /\ limit \in 1..MaxLimit
    /\ inv = SchedIdle.inv
    /\ completed = SchedIdle.completed
    /\ result = SchedIdle.result
    /\ activeTasks = <<>>
    /\ results = <<>>
    /\ nextItem = 1
    /\ awaited = {}
    /\ spc = "idle"
    /\ jobError = NoFailure
    /\ anyFailure = FALSE
    /\ startedAfterFailure = FALSE
    /\ hpc = "extract"
    /\ artifact = TRUE
    /\ deleteCalls = 0
    /\ response = "none"
    /\ failPoint = "none"
    /\ crashed = FALSE
    /\ totalRequests = 1
    /\ successfulRequests = 0
    /\ failedRequests = 0
    /\ refused \in 1..nItems
    /\ health = <<>>
    /\ ctImpl = "A"
    /\ isFirstRequest = FALSE
    /\ ctCalls = 0
    /\ contentLength = 0
    /\ ctOut = 0
    /\ prevLength = 0
    /\ prevOut = 0
    /\ text = <<>>
    /\ chunks = <<>>
    /\ splitDone = FALSE
    /\ contentChunks = <<>>
    /\ submitDone = FALSE
    /\ uploads = <<>>
    /\ exRoute = "server"
    /\ isDocx = FALSE
    /\ statOk = TRUE
    /\ mammothLoaded = TRUE
    /\ decode = "string"
    /\ readText = "string"
    /\ exPc = "start"
    /\ exResult = NoExtraction
    /\ exResponse = NoResponse
    /\ hqPc = "probing"
    /\ serviceStatus = NoServiceStatus
    /\ storageStatus = FALSE
    /\ firstHealthy = FALSE
    /\ recovered = FALSE
    /\ hqStatus = "none"
    /\ jobsFailed = 0

\* the server is up, no health request has arrived yet
InitHealth ==
    /\ retryImpl = "ollama"
    /\ maxAttempts = 1
    /\ attempt = 1
    /\ lastError = "none"
    /\ rpc = "idle"
    /\ calls = 0
    /\ thrown = NoError
    /\ delay = 0
    /\ outstanding = 0
    /\ retryCount = 0
    /\ errorsSeen = {}
    /\ state = "closed"
    /\ failures = 0
    /\ successes = 0
    /\ lastFailure = 0
    /\ now \in {TickMs}
    /\ pending = [a \in AdmitStates |-> 0]
    /\ execBit = 0
    /\ lastAdmit = "none"
    /\ failRun = 0
    /\ hoSuccesses = -1
    /\ lastSettle = <<"none", "closed">>
    /\ settledAdmit = "none"
    /\ failStreak = 0
    /\ schedImpl = "tasks"
    /\ nItems = 1
    /\ limit = 1
    /\ inv = SchedIdle.inv
    /\ completed = SchedIdle.completed
    /\ result = SchedIdle.result
    /\ activeTasks = <<>>
    /\ results = <<>>
    /\ nextItem = 1
    /\ awaited = {}
    /\ spc = "idle"
    /\ jobError = NoFailure
    /\ anyFailure = FALSE
    /\ startedAfterFailure = FALSE
    /\ hpc = "idle"
    /\ artifact = FALSE
    /\ deleteCalls = 0
    /\ response = "none"
    /\ failPoint = "none"
    /\ crashed = FALSE
    /\ totalRequests = 0
    /\ successfulRequests = 0
    /\ failedRequests = 0
    /\ refused = 0
    /\ health = <<>>
    /\ ctImpl = "A"
    /\ isFirstRequest = FALSE
    /\ ctCalls = 0
    /\ contentLength = 0
    /\ ctOut = 0
    /\ prevLength = 0
    /\ prevOut = 0
    /\ text = <<>>
    /\ chunks = <<>>
    /\ splitDone = FALSE
    /\ contentChunks = <<>>
    /\ submitDone = FALSE
    /\ uploads = <<>>
    /\ exRoute = "server"
    /\ isDocx = FALSE
    /\ statOk = TRUE
    /\ mammothLoaded = TRUE
    /\ decode = "string"
    /\ readText = "string"
    /\ exPc = "start"
    /\ exResult = NoExtraction
    /\ exResponse = NoResponse
    /\ hqPc = "probing"
    /\ serviceStatus = NoServiceStatus
    /\ storageStatus = FALSE
    /\ firstHealthy = FALSE
    /\ recovered = FALSE
    /\ hqStatus = "none"
    /\ jobsFailed = 0

\* no call of calculateTimeout has been made yet
InitTimeout ==
    /\ retryImpl = "ollama"
    /\ maxAttempts = 1
    /\ attempt = 1
    /\ lastError = "none"
    /\ rpc = "idle"
    /\ calls = 0
    /\ thrown = NoError
    /\ delay = 0
    /\ outstanding = 0
    /\ retryCount = 0
    /\ errorsSeen = {}
    /\ state = "closed"
    /\ failures = 0
    /\ successes = 0
    /\ lastFailure = 0
    /\ now \in {TickMs}
    /\ pending = [a \in AdmitStates |-> 0]
    /\ execBit = 0
    /\ lastAdmit = "none"
    /\ failRun = 0
    /\ hoSuccesses = -1
    /\ lastSettle = <<"none", "closed">>
    /\ settledAdmit = "none"
    /\ failStreak = 0
    /\ schedImpl = "tasks"
    /\ nItems = 1
    /\ limit = 1
    /\ inv = SchedIdle.inv
    /\ completed = SchedIdle.completed
    /\ result = SchedIdle.result
    /\ activeTasks = <<>>
    /\ results = <<>>
    /\ nextItem = 1
    /\ awaited = {}
    /\ spc = "idle"
    /\ jobError = NoFailure
    /\ anyFailure = FALSE
    /\ startedAfterFailure = FALSE
    /\ hpc = "idle"
    /\ artifact = FALSE
    /\ deleteCalls = 0
    /\ response = "none"
    /\ failPoint = "none"
    /\ crashed = FALSE
    /\ totalRequests = 0
    /\ successfulRequests = 0
    /\ failedRequests = 0
    /\ refused = 0
    /\ health = <<>>
    /\ ctImpl \in {"A", "B"}
    /\ isFirstRequest \in (IF ctImpl = "A" THEN BOOLEAN ELSE {FALSE})
    /\ ctCalls = 0
    /\ contentLength = 0
    /\ ctOut = 0
    /\ prevLength = 0
    /\ prevOut = 0
    /\ text = <<>>
    /\ chunks = <<>>
    /\ splitDone = FALSE
    /\ contentChunks = <<>>
    /\ submitDone = FALSE
    /\ uploads = <<>>
    /\ exRoute = "server"
    /\ isDocx = FALSE
    /\ statOk = TRUE
    /\ mammothLoaded = TRUE
    /\ decode = "string"
    /\ readText = "string"
    /\ exPc = "start"
    /\ exResult = NoExtraction
    /\ exResponse = NoResponse
    /\ hqPc = "probing"
    /\ serviceStatus = NoServiceStatus
    /\ storageStatus = FALSE
    /\ firstHealthy = FALSE
    /\ recovered = FALSE
    /\ hqStatus = "none"
    /\ jobsFailed = 0

\* a text has been extracted from the upload
InitSplit ==
    /\ retryImpl = "ollama"
    /\ maxAttempts = 1
    /\ attempt = 1
    /\ lastError = "none"
    /\ rpc = "idle"
    /\ calls = 0
    /\ thrown = NoError
    /\ delay = 0
    /\ outstanding = 0
    /\ retryCount = 0
    /\ errorsSeen = {}
    /\ state = "closed"
    /\ failures = 0
    /\ successes = 0
    /\ lastFailure = 0
    /\ now \in {TickMs}
    /\ pending = [a \in AdmitStates |-> 0]
    /\ execBit = 0
    /\ lastAdmit = "none"
    /\ failRun = 0
    /\ hoSuccesses = -1
    /\ lastSettle = <<"none", "closed">>
    /\ settledAdmit = "none"
    /\ failStreak = 0
    /\ schedImpl = "tasks"
    /\ nItems = 1
    /\ limit = 1
    /\ inv = SchedIdle.inv
    /\ completed = SchedIdle.completed
    /\ result = SchedIdle.result
    /\ activeTasks = <<>>
    /\ results = <<>>
    /\ nextItem = 1
    /\ awaited = {}
    /\ spc = "idle"
    /\ jobError = NoFailure
    /\ anyFailure = FALSE
    /\ startedAfterFailure = FALSE
    /\ hpc = "idle"
    /\ artifact = FALSE
    /\ deleteCalls = 0
    /\ response = "none"
    /\ failPoint = "none"
    /\ crashed = FALSE
    /\ totalRequests = 0
    /\ successfulRequests = 0
    /\ failedRequests = 0
    /\ refused = 0
    /\ health = <<>>
    /\ ctImpl = "A"
    /\ isFirstRequest = FALSE
    /\ ctCalls = 0
    /\ contentLength = 0
    /\ ctOut = 0
    /\ prevLength = 0
    /\ prevOut = 0
    /\ text \in Texts
    /\ chunks = <<>>
    /\ splitDone = FALSE
    /\ contentChunks = <<>>
    /\ submitDone = FALSE
    /\ uploads = <<>>
    /\ exRoute = "server"
    /\ isDocx = FALSE
    /\ statOk = TRUE
    /\ mammothLoaded = TRUE
    /\ decode = "string"
    /\ readText = "string"
    /\ exPc = "start"
    /\ exResult = NoExtraction
    /\ exResponse = NoResponse
    /\ hqPc = "probing"
    /\ serviceStatus = NoServiceStatus
    /\ storageStatus = FALSE
    /\ firstHealthy = FALSE
    /\ recovered = FALSE
    /\ hqStatus = "none"
    /\ jobsFailed = 0

\* the server is up and no upload has arrived
InitUpload ==
    /\ retryImpl = "ollama"
    /\ maxAttempts = 1
    /\ attempt = 1
    /\ lastError = "none"
    /\ rpc = "idle"
    /\ calls = 0
    /\ thrown = NoError
    /\ delay = 0
    /\ outstanding = 0
    /\ retryCount = 0
    /\ errorsSeen = {}
    /\ state = "closed"
    /\ failures = 0
    /\ successes = 0
    /\ lastFailure = 0
    /\ now \in {TickMs}
    /\ pending = [a \in AdmitStates |-> 0]
    /\ execBit = 0
    /\ lastAdmit = "none"
    /\ failRun = 0
    /\ hoSuccesses = -1
    /\ lastSettle = <<"none", "closed">>
    /\ settledAdmit = "none"
    /\ failStreak = 0
    /\ schedImpl = "tasks"
    /\ nItems = 1
    /\ limit = 1
    /\ inv = SchedIdle.inv
    /\ completed = SchedIdle.completed
    /\ result = SchedIdle.result
    /\ activeTasks = <<>>
    /\ results = <<>>
    /\ nextItem = 1
    /\ awaited = {}
    /\ spc = "idle"
    /\ jobError = NoFailure
    /\ anyFailure = FALSE
    /\ startedAfterFailure = FALSE
    /\ hpc = "idle"
    /\ artifact = FALSE
    /\ deleteCalls = 0
    /\ response = "none"
    /\ failPoint = "none"
    /\ crashed = FALSE
    /\ totalRequests = 0
    /\ successfulRequests = 0
    /\ failedRequests = 0
    /\ refused = 0
    /\ health = <<>>
    /\ ctImpl = "A"
    /\ isFirstRequest = FALSE
    /\ ctCalls = 0
    /\ contentLength = 0
    /\ ctOut = 0
    /\ prevLength = 0
    /\ prevOut = 0
    /\ text = <<>>
    /\ chunks = <<>>
    /\ splitDone = FALSE
    /\ contentChunks = <<>>
    /\ submitDone = FALSE
    /\ uploads = <<>>
    /\ exRoute = "server"
    /\ isDocx = FALSE
    /\ statOk = TRUE
    /\ mammothLoaded = TRUE
    /\ decode = "string"
    /\ readText = "string"
    /\ exPc = "start"
    /\ exResult = NoExtraction
    /\ exResponse = NoResponse
    /\ hqPc = "probing"
    /\ serviceStatus = NoServiceStatus
    /\ storageStatus = FALSE
    /\ firstHealthy = FALSE
    /\ recovered = FALSE
    /\ hqStatus = "none"
    /\ jobsFailed = 0

\* the upload is stored and the extraction is about to start
InitExtract ==
    /\ retryImpl = "ollama"
    /\ maxAttempts = 1
    /\ attempt = 1
    /\ lastError = "none"
    /\ rpc = "idle"
    /\ calls = 0
    /\ thrown = NoError
    /\ delay = 0
    /\ outstanding = 0
    /\ retryCount = 0
    /\ errorsSeen = {}
    /\ state = "closed"
    /\ failures = 0
    /\ successes = 0
    /\ lastFailure = 0
    /\ now \in {TickMs}
    /\ pending = [a \in AdmitStates |-> 0]
    /\ execBit = 0
    /\ lastAdmit = "none"
    /\ failRun = 0
    /\ hoSuccesses = -1
    /\ lastSettle = <<"none", "closed">>
    /\ settledAdmit = "none"
    /\ failStreak = 0
    /\ schedImpl = "tasks"
    /\ nItems = 1
    /\ limit = 1
    /\ inv = SchedIdle.inv
    /\ completed = SchedIdle.completed
    /\ result = SchedIdle.result
    /\ activeTasks = <<>>
    /\ results = <<>>
    /\ nextItem = 1
    /\ awaited = {}
    /\ spc = "idle"
    /\ jobError = NoFailure
    /\ anyFailure = FALSE
    /\ startedAfterFailure = FALSE
    /\ hpc = "idle"
    /\ artifact = FALSE
    /\ deleteCalls = 0
    /\ response = "none"
    /\ failPoint = "none"
    /\ crashed = FALSE
    /\ totalRequests = 0
    /\ successfulRequests = 0
    /\ failedRequests = 0
    /\ refused = 0
    /\ health = <<>>
    /\ ctImpl = "A"
    /\ isFirstRequest = FALSE
    /\ ctCalls = 0
    /\ contentLength = 0
    /\ ctOut = 0
    /\ prevLength = 0
    /\ prevOut = 0
    /\ text = <<>>
    /\ chunks = <<>>
    /\ splitDone = FALSE
    /\ contentChunks = <<>>
    /\ submitDone = FALSE
    /\ uploads = <<>>
    /\ exRoute \in {"server", "files"}
    /\ isDocx \in (IF exRoute = "server" THEN BOOLEAN ELSE {TRUE})
    /\ statOk \in (IF exRoute = "server" THEN BOOLEAN ELSE {TRUE})
    /\ mammothLoaded \in (IF exRoute = "server" THEN BOOLEAN ELSE {TRUE})
    /\ decode \in DecodeOutcomes
    /\ readText \in (IF exRoute = "server" THEN ReadOutcomes ELSE {"string"})
    /\ exPc = "start"
    /\ exResult = NoExtraction
    /\ exResponse = NoResponse
    /\ hqPc = "probing"
    /\ serviceStatus = NoServiceStatus
    /\ storageStatus = FALSE
    /\ firstHealthy = FALSE
    /\ recovered = FALSE
    /\ hqStatus = "none"
    /\ jobsFailed = 0

\* a health query has arrived and its two probes are under way
InitQuery ==
    /\ retryImpl = "ollama"
    /\ maxAttempts = 1
    /\ attempt = 1
    /\ lastError = "none"
    /\ rpc = "idle"
    /\ calls = 0
    /\ thrown = NoError
    /\ delay = 0
    /\ outstanding = 0
    /\ retryCount = 0
    /\ errorsSeen = {}
    /\ state = "closed"
    /\ failures = 0
    /\ successes = 0
    /\ lastFailure = 0
    /\ now \in {TickMs}
    /\ pending = [a \in AdmitStates |-> 0]
    /\ execBit = 0
    /\ lastAdmit = "none"
    /\ failRun = 0
    /\ hoSuccesses = -1
    /\ lastSettle = <<"none", "closed">>
    /\ settledAdmit = "none"
    /\ failStreak = 0
    /\ schedImpl = "tasks"
    /\ nItems = 1
    /\ limit = 1
    /\ inv = SchedIdle.inv
    /\ completed = SchedIdle.completed
    /\ result = SchedIdle.result
    /\ activeTasks = <<>>
    /\ results = <<>>
    /\ nextItem = 1
    /\ awaited = {}
    /\ spc = "idle"
    /\ jobError = NoFailure
    /\ anyFailure = FALSE
    /\ startedAfterFailure = FALSE
    /\ hpc = "idle"
    /\ artifact = FALSE
    /\ deleteCalls = 0
    /\ response = "none"
    /\ failPoint = "none"
    /\ crashed = FALSE
    /\ totalRequests = 0
    /\ successfulRequests = 0
    /\ failedRequests = 0
    /\ refused = 0
    /\ health = <<>>
    /\ ctImpl = "A"
    /\ isFirstRequest = FALSE
    /\ ctCalls = 0
    /\ contentLength = 0
    /\ ctOut = 0
    /\ prevLength = 0
    /\ prevOut = 0
    /\ text = <<>>
    /\ chunks = <<>>
    /\ splitDone = FALSE
    /\ contentChunks = <<>>
    /\ submitDone = FALSE
    /\ uploads = <<>>
    /\ exRoute = "server"
    /\ isDocx = FALSE
    /\ statOk = TRUE
    /\ mammothLoaded = TRUE
    /\ decode = "string"
    /\ readText = "string"
    /\ exPc = "start"
    /\ exResult = NoExtraction
    /\ exResponse = NoResponse
    /\ hqPc = "probing"
    /\ serviceStatus = NoServiceStatus
    /\ storageStatus = FALSE
    /\ firstHealthy = FALSE
    /\ recovered = FALSE
    /\ hqStatus = "none"
    /\ jobsFailed = 0

SpecRetry == InitRetry /\ [][RetryNext]_vars
SpecBreaker == InitBreaker /\ [][BreakerNext]_vars
SpecPipeline == InitPipeline /\ [][PipelineNext]_vars
SpecPipelineExit == InitPipeline /\ [][PipelineNextExit]_vars
SpecRefused == InitRefused /\ [][PipelineNext]_vars
\* the pipeline when every pending extraction, invocation and unlink settles
SpecPipelineFair == InitPipeline /\ [][PipelineNext]_vars /\ WF_vars(PipelineNext)
SpecHealth == InitHealth /\ [][HealthNext]_vars
SpecTimeout == InitTimeout /\ [][TimeoutNext]_vars
SpecSplit == InitSplit /\ [][SplitNext]_vars
SpecUpload == InitUpload /\ [][UploadNext]_vars
SpecExtract == InitExtract /\ [][ExtractNext]_vars
SpecQuery == InitQuery /\ [][QueryNext]_vars

Init == InitRetry \/ InitBreaker \/ InitPipeline
Next == RetryNext \/ BreakerNext \/ PipelineNext \/ HealthNext \/ TimeoutNext \/ SplitNext \/ UploadNext \/ ExtractNext
          \/ QueryNext
Spec == Init /\ [][Next]_vars

(***************************************************************************)
(* Properties.                                                             *)
(***************************************************************************)

\* C1: withRetry invokes the wrapped operation at most maxAttempts times,
\* whatever the outcomes of the attempts.
C1_RetryBound == calls <= maxAttempts
C1_Witness == rpc = "threw" /\ maxAttempts >= 3 /\ calls = maxAttempts

\* C2: from a closed breaker with zero counters, the failureThreshold-th
\* failed call in a row opens the breaker and records the time of that
\* failure as the transition time.
C2_OpensAtThreshold ==
    [][(failRun = failureThreshold - 1 /\ failRun' = failureThreshold)
         => (state' = "open" /\ lastFailure' = now)]_vars
C2_Witness ==
    /\ failRun = failureThreshold
    /\ state = "open"
    /\ lastFailure = now
    /\ lastSettle = <<"failure", "closed">>

\* C3: a call of execute() made while the breaker is open and the cooldown
\* has not elapsed is rejected with the circuit-open error, invokes no
\* wrapped operation and leaves the state and both counters as they were.
C3_OpenRejects ==
    [][(state = "open" /\ now - lastFailure <= timeout /\ execBit' # execBit)
         => (/\ lastAdmit' = "circuit_open"
             /\ pending' = pending
             /\ state' = state
             /\ failures' = failures
             /\ successes' = successes)]_vars
C3_Witness ==
    /\ lastAdmit = "circuit_open"
    /\ state = "open"
    /\ now - lastFailure = timeout

\* C4: once successThreshold calls in a row have succeeded since the breaker
\* was half-open, the breaker is closed and both counters are zero.
C4_ClosesAfterSuccesses ==
    hoSuccesses >= successThreshold
        => (state = "closed" /\ failures = 0 /\ successes = 0)
C4_Witness ==
    /\ hoSuccesses = successThreshold
    /\ state = "closed"
    /\ lastSettle = <<"success", "half-open">>

\* C5: a call that fails while the breaker is half-open moves it back to
\* open at once and restarts the cooldown clock at that failure.
C5_HalfOpenFailureReopens ==
    [][(state = "half-open" /\ failures' = failures + 1)
         => (state' = "open" /\ lastFailure' = now)]_vars
C5_Witness ==
    /\ lastSettle = <<"failure", "half-open">>
    /\ state = "open"
    /\ lastFailure = now
    /\ successes > 0

\* C6: processWithConcurrencyLimit never has more than limit processor
\* invocations in flight.
C6_Original == InFlight <= limit

\* C7: a job that completes returns one output per item, output i being the
\* output of item i.
C7_Original == spc = "returned" => results = [i \in 1..nItems |-> Out(i)]

C9_Original ==
    /\ ~startedAfterFailure
    /\ spc = "returned" => ~anyFailure
    /\ spc = "rejected" => jobError.first

\* C10: an attempt that fails with a model-not-found error ends withRetry
\* (lines 46-85) at once with that error; no further attempt is made, so a
\* first attempt failing so leaves the operation invoked exactly once.
C10_FatalNotRetried ==
    (retryImpl = "ollama" /\ lastError = "MODEL_NOT_FOUND")
        => (rpc = "threw" /\ thrown = Err("MODEL_NOT_FOUND", 0) /\ calls = attempt)
C10_Witness ==
    /\ retryImpl = "ollama"
    /\ lastError = "MODEL_NOT_FOUND"
    /\ rpc = "threw"
    /\ maxAttempts > 1
    /\ calls = 1

\* C11: when every one of the maxAttempts attempts failed with a retryable
\* error (a timeout or a refused connection), withRetry fails with a
\* connection error whose message carries the attempt count.
C11_Original ==
    (rpc = "threw" /\ lastError \in {"TIMEOUT", "Error"} /\ calls = maxAttempts)
        => (thrown.type = "CONNECTION_ERROR" /\ thrown.attempts = maxAttempts)

\* C12: the wait armed after failed attempt k (1 <= k < maxAttempts) is
\* baseDelay * 2^(k-1).
C12_Original ==
    rpc = "backoff" => delay = BaseDelay(retryImpl) * Pow2(attempt - 1)

\* C16: while closed the failure counter counts consecutive failures: the
\* breaker opens only when the failureThreshold most recent call outcomes
\* were all failures.
C16_Original ==
    [][(state = "closed" /\ state' = "open") => failStreak' >= failureThreshold]_vars

\* C17: the breaker closes only after successThreshold successes in a row
\* since it last entered half-open.
C17_Original ==
    [][(state = "half-open" /\ state' = "closed")
          => hoSuccesses' >= successThreshold]_vars

\* C18: a call of execute() that finds the breaker open with the cooldown
\* elapsed moves it to half-open and then runs the wrapped operation.
C18_HalfOpenBeforeRun ==
    [][(state = "open" /\ now - lastFailure > timeout /\ execBit' # execBit)
          => (/\ state' = "half-open"
              /\ lastAdmit' = "admitted"
              /\ pending'["half-open"] = pending["half-open"] + 1)]_vars
C18_Witness ==
    /\ state = "half-open"
    /\ lastAdmit = "admitted"
    /\ hoSuccesses = 0
    /\ pending["half-open"] = 1
    /\ now - lastFailure > timeout

\* C19: every failed call raises the failure counter by exactly one, and a
\* failure reported while the breaker is already open leaves the recorded
\* transition time alone.
C19_Original ==
    [][(PendingTotal(pending') < PendingTotal(pending) /\ lastSettle'[1] = "failure")
          => (/\ failures' = failures + 1
              /\ state = "open" => lastFailure' = lastFailure)]_vars

\* C20: processing one chunk after the other, at most one request to the
\* inference endpoint is outstanding at any instant, also after an attempt
\* has timed out and the next attempt has been started.
C20_Original == outstanding <= 1

\* C13: when the endpoint refuses every connection for one chunk and the retry
\* maximum is 5, the job fails with a service-unavailable response after
\* exactly 5 inference attempts for that chunk, and the circuit breaker has
\* recorded 5 failures in a row.
C13_Original ==
    (hpc = "done" /\ failPoint = "exhausted" /\ jobError.item = refused)
        => (/\ response = "error"
            /\ ExhaustedStatus(schedImpl) = 503
            /\ RefusedAttempts = CHUNK_RETRY_ATTEMPTS
            /\ failures = CHUNK_RETRY_ATTEMPTS)

\* C14: every inference invocation the pipeline starts goes through the
\* breaker's execute(), and none is started while the breaker is open with
\* the cooldown not elapsed.
C14_Original ==
    [][SumStarted(inv', MaxItems) > SumStarted(inv, MaxItems)
          => (/\ execBit' # execBit
              /\ ~(state = "open" /\ ~CooldownElapsed(now, lastFailure)))]_vars

\* C15: the breaker state is shared by all requests: a request that arrives
\* after failureThreshold earlier requests have failed is rejected with
\* circuit-open.
C15_Original ==
    \A r \in 1..Len(health) :
        health[r].failedBefore >= failureThreshold => health[r].outcome = "circuit_open"

\* C26: a malformed reply of the inference endpoint is fatal: the call is not
\* retried and the failure propagates at once.
C26_Original == lastError = "MALFORMED" => rpc = "threw"

\* C27: a chunk that succeeded after one or more failed attempts shows in the
\* response metadata as a retry count above 0.
C27_Original == (rpc = "returned" /\ calls > 1) => retryCount > 0

\* C28: when every attempt ran into its timeout, the request ends with the
\* gateway-timeout status 504.
C28_Original ==
    (rpc = "threw" /\ errorsSeen = {"TIMEOUT"}) => ResponseStatus(retryImpl, thrown) = 504

\* C21: a job that returns with every call having succeeded has made exactly
\* one inference invocation per chunk.
C21_Original ==
    (spc = "returned" /\ ~anyFailure) => SumStarted(inv, MaxItems) = nItems

\* C25: on every exit path of a request that stored an artifact, deleteFile is
\* invoked exactly once.
C25_Original == hpc = "done" => deleteCalls = 1

\* C29: once the request has ended it is counted in exactly one of
\* successfulRequests and failedRequests.
C29_Original == hpc = "done" => totalRequests = successfulRequests + failedRequests

\* C30: for a fixed cold-start flag calculateTimeout is non-decreasing in the
\* length, it equals the maximum of 120000 ms at and beyond the clamp
\* threshold, and with the cold-start flag set it is the cold-start budget
\* whatever the length; below the threshold the budget is below the maximum.
C30_TimeoutMonotoneClamped ==
    /\ (ctCalls >= 2 /\ prevLength <= contentLength) => prevOut <= ctOut
    /\ (ctCalls >= 1 /\ ~isFirstRequest /\ contentLength >= ClampThreshold(ctImpl))
           => ctOut = 120000 * TimeScale
    /\ (ctCalls >= 1 /\ ~isFirstRequest /\ contentLength < ClampThreshold(ctImpl))
           => ctOut < 120000 * TimeScale
    /\ (ctCalls >= 1 /\ isFirstRequest) => ctOut = INITIAL_PROMPT_TIMEOUT * TimeScale

\* two calls without the flag, the first below the clamp threshold and the
\* second beyond it
C30_Witness ==
    /\ ctCalls >= 2
    /\ ~isFirstRequest
    /\ prevLength < ClampThreshold(ctImpl)
    /\ prevLength > 0
    /\ contentLength > ClampThreshold(ctImpl)
    /\ prevOut < ctOut

\* C22: the chunks of splitContent(T), joined with double line breaks, hold
\* every non-whitespace character of T in the original order: nothing is
\* dropped.
C22_Original ==
    splitDone => NonWhitespace(JoinChunks(chunks)) = NonWhitespace(text)

\* C23: every chunk the route submits as one inference call is at most
\* MAX_SIZE long, unless it is a single sentence longer than that.
C23_Original ==
    submitDone =>
        \A i \in 1..Len(contentChunks) :
            Len(contentChunks[i]) <= MAX_SIZE \/ IsSingleSentence(contentChunks[i])

\* C24: once an upload has been rejected and its save has come to an end, no
\* file written for it is left in the store.
C24_Original ==
    \A r \in DOMAIN uploads :
        (uploads[r].result = "rejected" /\ uploads[r].save # "writing")
            => ~uploads[r].stored

\* C31: for a non-empty text splitContent returns at least one chunk, and no
\* chunk it returns is empty.
C31_Original ==
    (splitDone /\ text # <<>>) =>
        /\ chunks # <<>>
        /\ \A i \in 1..Len(chunks) : chunks[i] # <<>>

\* C36: a call admitted while the breaker was closed that succeeds while the
\* breaker is half-open leaves the success counter and the state as they were:
\* only calls admitted half-open count as probes.
C36_Original ==
    [][(/\ PendingTotal(pending') < PendingTotal(pending)
        /\ lastSettle' = <<"success", "half-open">>
        /\ settledAdmit' = "closed")
          => (successes' = successes /\ state' = state)]_vars

\* C37: while the breaker is open or half-open the failure counter is at least
\* failureThreshold, and the success counter is always below successThreshold.
C37_CountersWithinThresholds ==
    /\ state \in {"open", "half-open"} => failures >= failureThreshold
    /\ successes < successThreshold

\* half-open for the second time, with one success counted in the first
\* half-open period and a failure after it
C37_Witness ==
    /\ state = "half-open"
    /\ successes = 1
    /\ failures > failureThreshold

\* C38: a valid upload whose save has succeeded within the time limit, and whose
\* parser has finished, has been resolved by handleFileUpload, in whichever
\* order the two events came.
C38_Original ==
    \A r \in DOMAIN uploads :
        (/\ uploads[r].impl = "middleware"
         /\ uploads[r].save = "done"
         /\ uploads[r].finished
         /\ ~uploads[r].timedOut)
            => uploads[r].result = "resolved"

\* C39: when every inference attempt settles, the request comes to its end:
\* a response or an error has been sent and the deletion of its artifact has
\* run.
C39_Original == <>(hpc = "done")

C33_Original ==
    (exPc = "responded" /\ exResult.kind = "threw") => exResponse.status = 422

\* C34: the response to a failed request carries the attempt count and the
\* elapsed processing time.
C34_Original ==
    (exPc = "responded" /\ exResult.kind = "threw")
        => (exResponse.retryCount /\ exResponse.processingTime)

\* C35: a health query reports healthy exactly when the probe of the inference
\* endpoint and the probe of the storage have both succeeded in that query,
\* and a non-healthy status otherwise, whatever the job metrics are.
C35_HealthyOnlyIfBothProbes ==
    hqPc = "responded" =>
        /\ hqStatus \in {"healthy", "degraded"}
        /\ hqStatus = "healthy" <=>
              (serviceStatus.running /\ serviceStatus.status = "available" /\ storageStatus)

\* a query answered degraded because of the storage alone, after jobs have
\* failed and after a recovery of the endpoint
C35_Witness ==
    /\ hqPc = "responded"
    /\ jobsFailed > 0
    /\ ~firstHealthy
    /\ serviceStatus.healthy
    /\ ~storageStatus
    /\ hqStatus = "degraded"

====
